---- MODULE Spec2Model ----
(***************************************************************************)
(* Model of app.py, the coffee-sales dashboard script.  The script runs    *)
(* top to bottom once: load_data, the stop check, the Month_name           *)
(* normalisation, six preparation blocks and seven rendered sections.      *)
(* A run is one behaviour; pc is the position of the script.               *)
(*                                                                         *)
(* Encodings.  A DataFrame is a record [none, columns, rows]; rows is a    *)
(* sequence of records.  Python's None for a derived table is the record   *)
(* None below.  NaN of a text column is the string NaN, NaN of a numeric   *)
(* column is NaNNum.  A percentage count/total*100 is kept exact as the    *)
(* pair (num, den) with num = count*100 and den = total.                   *)
(***************************************************************************)
EXTENDS Integers, Sequences, FiniteSets, TLC

\* ---------------------------------------------------------------- bounds
MaxRows == 3

\* ------------------------------------------------------------- vocabulary
NaN == "NaN"
NaNNum == -1
NA == "N/A"

DATA_FILE == "Coffe_sales_clean.csv"

month_order == <<"January", "February", "March", "April", "May", "June",
                 "July", "August", "September", "October", "November", "December">>

\* Column names the script looks up.
Columns == {"Weekday", "Weekdaysort", "Money", "Month_name", "Hour_of_Day", "Coffee_Name"}

\* Alphabetical order of weekday names: the order groupby gives its keys.
WeekdayLex == <<"Friday", "Monday", "Saturday", "Sunday", "Thursday", "Tuesday", "Wednesday">>

\* The sort key that goes with each weekday name in the data file (1 = Monday).
WeekdaysortOf(w) ==
    CASE w = "Monday" -> 1
      [] w = "Tuesday" -> 2
      [] w = "Wednesday" -> 3
      [] w = "Thursday" -> 4
      [] w = "Friday" -> 5
      [] w = "Saturday" -> 6
      [] w = "Sunday" -> 7
      [] OTHER -> NaNNum

Hours == 0..23

\* ---------------------------------------------------------- generic helpers
Range(s) == {s[i] : i \in 1..Len(s)}

SeqsUpTo(S, n) == UNION {[1..k -> S] : k \in 0..n}

RECURSIVE SumField(_, _)
SumField(s, f) == IF s = <<>> THEN 0 ELSE s[1][f] + SumField(Tail(s), f)

Count(s, Test(_)) == Len(SelectSeq(s, Test))

\* Python's None for a derived table, and a computed table.
None == [none |-> TRUE, rows |-> <<>>]
Frame(rows) == [none |-> FALSE, rows |-> rows]

\* load_data's None.
NoTable == [none |-> TRUE, columns |-> {}, rows |-> <<>>]

\* ------------------------------------------------------------ input tables
Row(w, m, mo, h, c) ==
    [Weekday |-> w, Weekdaysort |-> WeekdaysortOf(w), Money |-> m,
     Month_name |-> mo, Hour_of_Day |-> h, Coffee_Name |-> c]

DefaultRow == Row("Monday", 10, "January", 8, "Latte")

\* Rows that vary weekday and amount.
WeekRows == {Row(w, m, "January", 8, "Latte") :
                w \in {"Monday", "Tuesday", "Friday"}, m \in {5, 7, 10}}

\* Rows that vary month (one value outside the vocabulary) and product.
MonthRows == {Row("Monday", 10, mo, 8, c) :
                mo \in {"January", "March", "Enero"}, c \in {"Latte", "Espresso"}}

\* Rows that vary the hour.
HourRows == {Row("Monday", 10, "January", h, "Latte") : h \in {8, 9, NaNNum}}

\* Rows with one empty cell.
NullRows == {DefaultRow,
             Row(NaN, 10, "January", 8, "Latte"),
             Row("Tuesday", 5, NaN, 9, "Latte"),
             Row("Tuesday", 5, "March", NaNNum, "Espresso"),
             Row("Friday", 7, "March", 9, NaN)}

\* The two worked scenarios: revenue by weekday, product share.
ScenarioRevenue == <<Row("Monday", 10, "January", 8, "Latte"),
                     Row("Monday", 5, "January", 8, "Latte"),
                     Row("Tuesday", 7, "January", 8, "Latte")>>
ScenarioShare == <<Row("Monday", 10, "January", 8, "Latte"),
                   Row("Monday", 10, "January", 8, "Latte"),
                   Row("Monday", 10, "January", 8, "Espresso")>>

\* A cell of a column the file does not have is never read; it is blanked here.
Blank(r, cols) ==
    [Weekday |-> IF "Weekday" \in cols THEN r.Weekday ELSE NaN,
     Weekdaysort |-> IF "Weekdaysort" \in cols THEN r.Weekdaysort ELSE NaNNum,
     Money |-> IF "Money" \in cols THEN r.Money ELSE 0,
     Month_name |-> IF "Month_name" \in cols THEN r.Month_name ELSE NaN,
     Hour_of_Day |-> IF "Hour_of_Day" \in cols THEN r.Hour_of_Day ELSE NaNNum,
     Coffee_Name |-> IF "Coffee_Name" \in cols THEN r.Coffee_Name ELSE NaN]

Table(cols, rows) ==
    [none |-> FALSE, columns |-> cols, rows |-> [i \in 1..Len(rows) |-> Blank(rows[i], cols)]]

\* The contents the data file can have in this model.
InputTables ==
    {Table(Columns, rs) :
        rs \in SeqsUpTo(WeekRows, MaxRows) \cup SeqsUpTo(MonthRows, MaxRows)
               \cup SeqsUpTo(HourRows, MaxRows) \cup SeqsUpTo(NullRows, MaxRows)}
    \cup {Table(cols, rs) : cols \in SUBSET Columns,
                            rs \in SeqsUpTo({DefaultRow, Row("Tuesday", 5, "March", 9, "Espresso")}, 1)
                                   \cup {ScenarioRevenue, ScenarioShare}}

\* ------------------------------------------------------- pandas operations
\* pd.Categorical(values, categories=month_order, ordered=True): a value that
\* is not a category becomes NaN; no error is raised for it.
Categorical(v) == IF v \in Range(month_order) THEN v ELSE NaN

\* pd.Categorical raises ValueError only for categories that are not unique.
CategoricalValueError == Cardinality(Range(month_order)) # Len(month_order)

\* Every (Weekday, Weekdaysort) key in the order groupby sorts its keys:
\* by name alphabetically, then by number.
AllDayKeys ==
    [n \in 1..(Len(WeekdayLex) * 7) |->
        [Weekday |-> WeekdayLex[((n - 1) \div 7) + 1], Weekdaysort |-> ((n - 1) % 7) + 1]]

SameDay(r, k) == r.Weekday = k.Weekday /\ r.Weekdaysort = k.Weekdaysort

\* The keys groupby(['Weekday', 'Weekdaysort']) finds: rows with NaN in either
\* key column are left out (dropna), the keys come sorted.
DayKeys(rows) ==
    SelectSeq(AllDayKeys, LAMBDA k : \E i \in 1..Len(rows) : SameDay(rows[i], k))

\* Variant: .first() in place of .sum().
GroupByDayFirst(rows) ==
    LET keys == DayKeys(rows)
    IN [n \in 1..Len(keys) |->
          [idx |-> n - 1, Weekday |-> keys[n].Weekday, Weekdaysort |-> keys[n].Weekdaysort,
           Money |-> SelectSeq(rows, LAMBDA r : SameDay(r, keys[n]))[1].Money]]

\* df.groupby(['Weekday', 'Weekdaysort'])['Money'].sum().reset_index()
GroupByDaySum(rows) ==
    LET keys == DayKeys(rows)
    IN [n \in 1..Len(keys) |->
          [idx |-> n - 1, Weekday |-> keys[n].Weekday, Weekdaysort |-> keys[n].Weekdaysort,
           Money |-> SumField(SelectSeq(rows, LAMBDA r : SameDay(r, keys[n])), "Money")]]

\* df.groupby(['Weekday', 'Weekdaysort']).size().reset_index(name='Ventas')
GroupByDaySize(rows) ==
    LET keys == DayKeys(rows)
    IN [n \in 1..Len(keys) |->
          [idx |-> n - 1, Weekday |-> keys[n].Weekday, Weekdaysort |-> keys[n].Weekdaysort,
           Ventas |-> Count(rows, LAMBDA r : SameDay(r, keys[n]))]]

\* frame.sort_values('Weekdaysort'): rows reordered, index labels kept.
RECURSIVE InsertByWeekdaysort(_, _)
InsertByWeekdaysort(r, sorted) ==
    IF sorted = <<>> THEN <<r>>
    ELSE IF r.Weekdaysort < sorted[1].Weekdaysort THEN <<r>> \o sorted
         ELSE <<sorted[1]>> \o InsertByWeekdaysort(r, Tail(sorted))

RECURSIVE SortValuesWeekdaysort(_)
SortValuesWeekdaysort(f) ==
    IF f = <<>> THEN <<>>
    ELSE InsertByWeekdaysort(f[Len(f)], SortValuesWeekdaysort(SubSeq(f, 1, Len(f) - 1)))

\* Series.max() of a column of a non-empty frame.
MaxOf(f, col) == CHOOSE v \in {f[i][col] : i \in 1..Len(f)} : \A j \in 1..Len(f) : f[j][col] <= v

\* Position of the first row of a non-empty frame that attains the maximum.
ArgMax(f, col) == CHOOSE i \in 1..Len(f) :
                     /\ f[i][col] = MaxOf(f, col)
                     /\ \A j \in 1..(i - 1) : f[j][col] # MaxOf(f, col)

\* Series.idxmax(): the index label of the first maximum.
IdxMax(f, col) == f[ArgMax(f, col)].idx

\* frame.loc[label, col]
Loc(f, label, col) == (CHOOSE r \in Range(f) : r.idx = label)[col]

\* groupby('Month_name').size() on the categorical column: rows whose month
\* is NaN are left out; with observed=False every category has an entry,
\* with observed=True only the categories that occur.  Which one is the
\* default depends on the pandas release.
GroupByMonthSize(rows, observed) ==
    LET all == [n \in 1..Len(month_order) |->
                  [Month_name |-> month_order[n],
                   Ventas |-> Count(rows, LAMBDA r : r.Month_name = month_order[n])]]
    IN IF observed THEN SelectSeq(all, LAMBDA e : e.Ventas > 0) ELSE all

\* Variant: reindex without fillna(0); a month that is not in g keeps NaN.
Reindex_NoFill(g) ==
    [n \in 1..Len(month_order) |->
        [idx |-> n - 1, Month_name |-> month_order[n],
         Ventas |-> IF \E e \in Range(g) : e.Month_name = month_order[n]
                    THEN (CHOOSE e \in Range(g) : e.Month_name = month_order[n]).Ventas
                    ELSE NaNNum]]

\* .set_index('Month_name').reindex(month_order).fillna(0).reset_index(),
\* then Ventas.astype(int)
ReindexFillna(g) ==
    [n \in 1..Len(month_order) |->
        [idx |-> n - 1, Month_name |-> month_order[n],
         Ventas |-> IF \E e \in Range(g) : e.Month_name = month_order[n]
                    THEN (CHOOSE e \in Range(g) : e.Month_name = month_order[n]).Ventas
                    ELSE 0]]

\* df['Hour_of_Day'].value_counts().sort_index(): one entry per hour that
\* occurs, NaN left out, ascending hour.  The index label is the hour.
HourCounts(rows) ==
    LET all == [n \in 1..Cardinality(Hours) |->
                  [idx |-> n - 1, Ventas |-> Count(rows, LAMBDA r : r.Hour_of_Day = n - 1)]]
    IN SelectSeq(all, LAMBDA e : e.Ventas > 0)

\* Product names, and the orders in which value_counts can leave products
\* whose counts are equal (its sort is not documented to be stable).
Products == {"Latte", "Espresso"}
TieOrders == {<<"Latte", "Espresso">>, <<"Espresso", "Latte">>}

CoffeeCount(rows, c) == Count(rows, LAMBDA r : r.Coffee_Name = c)

\* Position of product c in the order o.
Rank(o, c) == CHOOSE i \in 1..Len(o) : o[i] = c

\* a comes before b in value_counts' result: larger count first.
Before(rows, o, a, b) ==
    \/ CoffeeCount(rows, a) > CoffeeCount(rows, b)
    \/ CoffeeCount(rows, a) = CoffeeCount(rows, b) /\ Rank(o, a) < Rank(o, b)

\* df['Coffee_Name'].value_counts(): one entry per product that occurs, NaN
\* left out, descending count.  The index label is the product name.
ValueCounts(rows, o) ==
    LET present == {c \in Products : CoffeeCount(rows, c) > 0}
        pos(c) == 1 + Cardinality({d \in present : Before(rows, o, d, c)})
    IN [n \in 1..Cardinality(present) |->
          LET c == CHOOSE c \in present : pos(c) = n
          IN [idx |-> c, n |-> CoffeeCount(rows, c)]]

\* value_counts(normalize=True) * 100: each count over the total of the counts.
ValueCountsNormalized(rows, o) ==
    LET vc == ValueCounts(rows, o)
    IN [n \in 1..Len(vc) |-> [idx |-> vc[n].idx, num |-> vc[n].n * 100, den |-> SumField(vc, "n")]]

\* ------------------------------------------------------------------- state
VARIABLES
    pc,                 \* position of the script
    fileStatus,         \* what read_csv meets: "ok", "missing", "unreadable"
    csv,                \* contents of DATA_FILE
    tie_order,          \* order value_counts leaves equal counts in, this run
    df_raw, df,
    raised,             \* uncaught exception that ended the run, or "none"
    messages,           \* st.error / st.warning shown
    rendered,           \* sections written to the page, in order
    sales_by_day_money, dia_pico_ingresos,
    cafe_mas_vendido_ano, ventas_cafe_estrella_mes, mes_pico_estrella, max_ventas_estrella,
    sales_by_hour, peak_hour, sales_at_peak,
    porcentajes_cafe, top_coffee_name, top_coffee_percent,
    sales_volume_by_weekday, peak_sales_day,
    sales_volume_by_month, peak_sales_month, peak_sales_month_volume,
    min_ventas_estrella

env == <<fileStatus, csv, tie_order>>
out1 == <<sales_by_day_money, dia_pico_ingresos>>
out2 == <<cafe_mas_vendido_ano, ventas_cafe_estrella_mes, mes_pico_estrella, max_ventas_estrella>>
out3 == <<sales_by_hour, peak_hour, sales_at_peak>>
out4 == <<porcentajes_cafe, top_coffee_name, top_coffee_percent>>
out5 == <<sales_volume_by_weekday, peak_sales_day>>
out6 == <<sales_volume_by_month, peak_sales_month, peak_sales_month_volume>>
ui == <<messages, rendered, min_ventas_estrella>>
vars == <<pc, env, df_raw, df, raised, out1, out2, out3, out4, out5, out6, ui>>

\* Two products occur equally often: only then does tie_order matter.
HasTie(rows) ==
    \E a, b \in Products : a # b /\ CoffeeCount(rows, a) > 0
                           /\ CoffeeCount(rows, a) = CoffeeCount(rows, b)

\* State before line 33.  A name the script has not bound yet holds the value
\* its block gives it first (None, "N/A", 0).
Init ==
    /\ pc = "load"
    /\ fileStatus \in {"ok", "missing", "unreadable"}
    /\ csv \in IF fileStatus = "ok" THEN InputTables ELSE {NoTable}
    /\ tie_order \in {o \in TieOrders : HasTie(csv.rows) \/ o = <<"Latte", "Espresso">>}
    /\ df_raw = NoTable
    /\ df = NoTable
    /\ raised = "none"
    /\ messages = {}
    /\ rendered = <<>>
    /\ sales_by_day_money = None
    /\ dia_pico_ingresos = NA
    /\ cafe_mas_vendido_ano = NA
    /\ ventas_cafe_estrella_mes = None
    /\ mes_pico_estrella = NA
    /\ max_ventas_estrella = 0
    /\ sales_by_hour = None
    /\ peak_hour = NA
    /\ sales_at_peak = 0
    /\ porcentajes_cafe = None
    /\ top_coffee_name = NA
    /\ top_coffee_percent = [num |-> 0, den |-> 1]
    /\ sales_volume_by_weekday = None
    /\ peak_sales_day = NA
    /\ sales_volume_by_month = None
    /\ peak_sales_month = NA
    /\ peak_sales_month_volume = 0
    /\ min_ventas_estrella = NaNNum

\* ------------------------------------------------------ loading (l. 16-49)
\* Variant: load_data hands back an empty table instead of None on an error.
load_data_EmptyTable ==
    IF fileStatus = "ok" THEN [table |-> csv, shown |-> {}]
    ELSE [table |-> Table({}, <<>>), shown |-> {"error: no se encontro el archivo"}]

\* load_data(DATA_FILE): the table, or an st.error and None.  The Date column
\* (l. 22-23) is read by no aggregation and is not part of the table here.
load_data ==
    IF fileStatus = "ok" THEN [table |-> csv, shown |-> {}]
    ELSE IF fileStatus = "missing" THEN [table |-> NoTable, shown |-> {"error: no se encontro el archivo"}]
    ELSE [table |-> NoTable, shown |-> {"error: al cargar o procesar el archivo"}]

LoadData ==
    /\ pc = "load"
    /\ df_raw' = load_data.table
    /\ messages' = messages \cup load_data.shown
    /\ pc' = "check"
    /\ UNCHANGED <<env, df, raised, out1, out2, out3, out4, out5, out6, rendered, min_ventas_estrella>>

\* if df_raw is None: st.stop();  df = df_raw.copy()
StopCheck ==
    /\ pc = "check"
    /\ IF df_raw.none
       THEN pc' = "stopped" /\ df' = df
       ELSE pc' = "normalize" /\ df' = df_raw
    /\ UNCHANGED <<env, df_raw, raised, out1, out2, out3, out4, out5, out6, ui>>

\* The column after line 47.
NormalizedMonths(rows) ==
    [i \in 1..Len(rows) |-> [rows[i] EXCEPT !.Month_name = Categorical(rows[i].Month_name)]]

\* try: df['Month_name'] = pd.Categorical(...)  except ValueError: st.warning(...)
\* df['Month_name'] of a table without that column raises KeyError, which the
\* except clause does not catch.
NormalizeMonth ==
    /\ pc = "normalize"
    /\ IF "Month_name" \notin df.columns
       THEN /\ raised' = "KeyError"
            /\ pc' = "aborted"
            /\ UNCHANGED <<df, messages>>
       ELSE IF CategoricalValueError
       THEN /\ messages' = messages \cup {"warning: no todos los meses esperados"}
            /\ pc' = "prep1"
            /\ UNCHANGED <<df, raised>>
       ELSE /\ df' = [df EXCEPT !.rows = NormalizedMonths(df.rows)]
            /\ pc' = "prep1"
            /\ UNCHANGED <<raised, messages>>
    /\ UNCHANGED <<env, df_raw, out1, out2, out3, out4, out5, out6, rendered, min_ventas_estrella>>

\* ------------------------------------------------- preparation (l. 54-152)
\* frame.loc[frame[col].idxmax(), label] of a non-empty frame.
PeakLabel(f, col, label) == Loc(f, IdxMax(f, col), label)

\* Variant: line 61, the sort_values call, left out.
IngresosPorDia_Unsorted(rows) == GroupByDaySum(rows)

\* Lines 59-61.
IngresosPorDia(rows) == SortValuesWeekdaysort(GroupByDaySum(rows))

\* Block 1 (l. 54-63).  idxmax of an empty column raises ValueError.
PrepIngresosPorDia ==
    /\ pc = "prep1"
    /\ IF {"Weekday", "Money", "Weekdaysort"} \subseteq df.columns
       THEN LET f == IngresosPorDia(df.rows)
            IN /\ sales_by_day_money' = Frame(f)
               /\ IF f = <<>>
                  THEN /\ raised' = "ValueError"
                       /\ pc' = "aborted"
                       /\ UNCHANGED dia_pico_ingresos
                  ELSE /\ dia_pico_ingresos' = PeakLabel(f, "Money", "Weekday")
                       /\ pc' = "prep2"
                       /\ UNCHANGED raised
       ELSE /\ pc' = "prep2"
            /\ UNCHANGED <<raised, out1>>
    /\ UNCHANGED <<env, df_raw, df, out2, out3, out4, out5, out6, ui>>

\* Lines 81-83 and 145-147.
VentasPorMes(rows, observed) == ReindexFillna(GroupByMonthSize(rows, observed))

\* Variant: line 78, the filter on the top product, left out.
VentasDe_Todas(rows, cafe) == rows

\* Line 78.
VentasDe(rows, cafe) == SelectSeq(rows, LAMBDA r : r.Coffee_Name = cafe)

\* Block 2 (l. 68-87).  idxmax of an empty value_counts raises ValueError.
PrepCafeEstrella ==
    /\ pc = "prep2"
    /\ IF "Coffee_Name" \in df.columns
       THEN LET vc == ValueCounts(df.rows, tie_order)
            IN IF vc = <<>>
               THEN /\ raised' = "ValueError"
                    /\ pc' = "aborted"
                    /\ UNCHANGED out2
               ELSE \E observed \in BOOLEAN :
                    LET cafe == IdxMax(vc, "n")
                        f == VentasPorMes(VentasDe(df.rows, cafe), observed)
                    IN /\ cafe_mas_vendido_ano' = cafe
                       /\ ventas_cafe_estrella_mes' = Frame(f)
                       /\ max_ventas_estrella' = MaxOf(f, "Ventas")
                       /\ mes_pico_estrella' = PeakLabel(f, "Ventas", "Month_name")
                       /\ pc' = "prep3"
                       /\ UNCHANGED raised
       ELSE /\ pc' = "prep3"
            /\ UNCHANGED <<raised, out2>>
    /\ UNCHANGED <<env, df_raw, df, out1, out3, out4, out5, out6, ui>>

\* Block 3 (l. 92-103).
PrepVentasPorHora ==
    /\ pc = "prep3"
    /\ IF "Hour_of_Day" \in df.columns
       THEN LET s == HourCounts(df.rows)
            IN /\ sales_by_hour' = Frame(s)
               /\ IF s # <<>>
                  THEN /\ peak_hour' = ToString(IdxMax(s, "Ventas"))
                       /\ sales_at_peak' = MaxOf(s, "Ventas")
                  ELSE UNCHANGED <<peak_hour, sales_at_peak>>
       ELSE UNCHANGED out3
    /\ pc' = "prep4"
    /\ UNCHANGED <<env, df_raw, df, raised, out1, out2, out4, out5, out6, ui>>

\* Block 4 (l. 108-119).
PrepPorcentajes ==
    /\ pc = "prep4"
    /\ IF "Coffee_Name" \in df.columns
       THEN LET p == ValueCountsNormalized(df.rows, tie_order)
            IN /\ porcentajes_cafe' = Frame(p)
               /\ IF p # <<>>
                  THEN /\ top_coffee_name' = IdxMax(p, "num")
                       /\ top_coffee_percent' = [num |-> MaxOf(p, "num"), den |-> p[1].den]
                  ELSE UNCHANGED <<top_coffee_name, top_coffee_percent>>
       ELSE UNCHANGED out4
    /\ pc' = "prep5"
    /\ UNCHANGED <<env, df_raw, df, raised, out1, out2, out3, out5, out6, ui>>

\* Lines 129-130.
VolumenPorDia(rows) == SortValuesWeekdaysort(GroupByDaySize(rows))

\* Block 5 (l. 124-134).
PrepVolumenPorDia ==
    /\ pc = "prep5"
    /\ IF {"Weekday", "Weekdaysort"} \subseteq df.columns
       THEN LET f == VolumenPorDia(df.rows)
            IN /\ sales_volume_by_weekday' = Frame(f)
               /\ IF f # <<>>
                  THEN peak_sales_day' = PeakLabel(f, "Ventas", "Weekday")
                  ELSE UNCHANGED peak_sales_day
       ELSE UNCHANGED out5
    /\ pc' = "prep6"
    /\ UNCHANGED <<env, df_raw, df, raised, out1, out2, out3, out4, out6, ui>>

\* Block 6 (l. 139-152).
PrepVolumenPorMes ==
    /\ pc = "prep6"
    /\ IF "Month_name" \in df.columns
       THEN \E observed \in BOOLEAN :
            LET f == VentasPorMes(df.rows, observed)
            IN /\ sales_volume_by_month' = Frame(f)
               /\ IF f # <<>>
                  THEN /\ peak_sales_month_volume' = MaxOf(f, "Ventas")
                       /\ peak_sales_month' = PeakLabel(f, "Ventas", "Month_name")
                  ELSE UNCHANGED <<peak_sales_month, peak_sales_month_volume>>
       ELSE UNCHANGED out6
    /\ pc' = "secA"
    /\ UNCHANGED <<env, df_raw, df, raised, out1, out2, out3, out4, out5, ui>>

\* --------------------------------------------------- sections (l. 158-449)
\* A section shows its charts and metrics, or an st.info that data is missing.
Section(at, name, shown, next) ==
    /\ pc = at
    /\ rendered' = Append(rendered, [section |-> name, shown |-> shown])
    /\ pc' = next

SeccionA ==
    /\ Section("secA", "A", ~sales_by_day_money.none, "secE")
    /\ UNCHANGED <<env, df_raw, df, raised, out1, out2, out3, out4, out5, out6, messages, min_ventas_estrella>>

SeccionE ==
    /\ Section("secE", "E", ~sales_volume_by_weekday.none, "secF")
    /\ UNCHANGED <<env, df_raw, df, raised, out1, out2, out3, out4, out5, out6, messages, min_ventas_estrella>>

SeccionF ==
    /\ Section("secF", "F", ~sales_volume_by_month.none, "secC")
    /\ UNCHANGED <<env, df_raw, df, raised, out1, out2, out3, out4, out5, out6, messages, min_ventas_estrella>>

SeccionC ==
    /\ Section("secC", "C", "Hour_of_Day" \in df.columns, "secB")
    /\ UNCHANGED <<env, df_raw, df, raised, out1, out2, out3, out4, out5, out6, messages, min_ventas_estrella>>

\* Line 363: the smallest of the monthly counts of the top product.
MinOf(f, col) == CHOOSE v \in {f[i][col] : i \in 1..Len(f)} : \A j \in 1..Len(f) : v <= f[j][col]

SeccionB ==
    LET shown == ~ventas_cafe_estrella_mes.none /\ cafe_mas_vendido_ano # NA
    IN /\ Section("secB", "B", shown, "secD")
       /\ min_ventas_estrella' = IF shown THEN MinOf(ventas_cafe_estrella_mes.rows, "Ventas")
                                 ELSE min_ventas_estrella
       /\ UNCHANGED <<env, df_raw, df, raised, out1, out2, out3, out4, out5, out6, messages>>

SeccionD ==
    /\ Section("secD", "D", ~porcentajes_cafe.none /\ porcentajes_cafe.rows # <<>>, "final")
    /\ UNCHANGED <<env, df_raw, df, raised, out1, out2, out3, out4, out5, out6, messages, min_ventas_estrella>>

\* Lines 429-449: the summary metrics.
Conclusion ==
    /\ Section("final", "final", TRUE, "done")
    /\ UNCHANGED <<env, df_raw, df, raised, out1, out2, out3, out4, out5, out6, messages, min_ventas_estrella>>

Next ==
    \/ LoadData
    \/ StopCheck
    \/ NormalizeMonth
    \/ PrepIngresosPorDia
    \/ PrepCafeEstrella
    \/ PrepVentasPorHora
    \/ PrepPorcentajes
    \/ PrepVolumenPorDia
    \/ PrepVolumenPorMes
    \/ SeccionA
    \/ SeccionE
    \/ SeccionF
    \/ SeccionC
    \/ SeccionB
    \/ SeccionD
    \/ Conclusion

Spec == Init /\ [][Next]_vars

\* =================================================================== claims
Ended == pc \in {"done", "stopped", "aborted"}

\* Columns each aggregation reads.
Required(a) ==
    CASE a = "revenue_by_weekday" -> {"Weekday", "Weekdaysort", "Money"}
      [] a = "volume_by_weekday" -> {"Weekday", "Weekdaysort"}
      [] a = "volume_by_month" -> {"Month_name"}
      [] a = "volume_by_hour" -> {"Hour_of_Day"}
      [] a = "top_product" -> {"Coffee_Name"}
      [] a = "top_product_monthly_trend" -> {"Coffee_Name", "Month_name"}
      [] a = "product_share" -> {"Coffee_Name"}

Aggregations == {"revenue_by_weekday", "volume_by_weekday", "volume_by_month", "volume_by_hour",
                 "top_product", "top_product_monthly_trend", "product_share"}

\* The aggregation has a result.
Available(a) ==
    CASE a = "revenue_by_weekday" -> ~sales_by_day_money.none
      [] a = "volume_by_weekday" -> ~sales_volume_by_weekday.none
      [] a = "volume_by_month" -> ~sales_volume_by_month.none
      [] a = "volume_by_hour" -> ~sales_by_hour.none
      [] a = "top_product" -> cafe_mas_vendido_ano # NA
      [] a = "top_product_monthly_trend" -> ~ventas_cafe_estrella_mes.none
      [] a = "product_share" -> ~porcentajes_cafe.none

\* The peak facts of an aggregation are all "N/A".
PeakIsNA(a) ==
    CASE a = "revenue_by_weekday" -> dia_pico_ingresos = NA
      [] a = "volume_by_weekday" -> peak_sales_day = NA
      [] a = "volume_by_month" -> peak_sales_month = NA
      [] a = "volume_by_hour" -> peak_hour = NA
      [] a = "top_product" -> cafe_mas_vendido_ano = NA
      [] a = "top_product_monthly_trend" -> mes_pico_estrella = NA
      [] a = "product_share" -> top_coffee_name = NA

\* C1: when the loaded table (with at least one row) lacks a column, the run
\* ends without a raised error, exactly the aggregations that need a missing column are unavailable
\* (table None, peak "N/A") and every other aggregation is computed.
C1_MissingColumnIsolation ==
    (Ended /\ fileStatus = "ok" /\ csv.columns # Columns /\ csv.rows # <<>>) =>
        /\ raised = "none"
        /\ \A a \in Aggregations :
              IF Required(a) \subseteq csv.columns
              THEN Available(a)
              ELSE ~Available(a) /\ PeakIsNA(a)

\* C2: a table with every column and zero rows runs to the end without a
\* raised error, and every peak fact is then "N/A" with tables empty or zero.
C2_ZeroRowBoundary ==
    (fileStatus = "ok" /\ csv.columns = Columns /\ csv.rows = <<>>) =>
        /\ raised = "none"
        /\ pc = "done" =>
              /\ \A a \in Aggregations : Available(a) \/ a = "top_product"
              /\ \A a \in Aggregations : PeakIsNA(a)
              /\ sales_by_day_money.rows = <<>> /\ sales_volume_by_weekday.rows = <<>>
              /\ sales_by_hour.rows = <<>> /\ porcentajes_cafe.rows = <<>>
              /\ \A n \in 1..Len(sales_volume_by_month.rows) : sales_volume_by_month.rows[n].Ventas = 0
              /\ \A n \in 1..Len(ventas_cafe_estrella_mes.rows) : ventas_cafe_estrella_mes.rows[n].Ventas = 0

\* No aggregation has been computed and nothing is on the page.
NothingComputed ==
    /\ \A a \in Aggregations : ~Available(a) /\ PeakIsNA(a)
    /\ rendered = <<>>

\* C3: when the file is not found, load_data shows an error and returns no
\* table, the run stops with no aggregation computed and no section rendered;
\* an aggregation is only ever computed after a table was loaded.
C3_MissingFileTerminal ==
    /\ (fileStatus = "missing" /\ pc # "load") =>
          /\ df_raw.none
          /\ \E m \in messages : m = "error: no se encontro el archivo"
          /\ pc \in {"check", "stopped"}
          /\ raised = "none"
          /\ NothingComputed
    /\ (~NothingComputed) => (fileStatus = "ok" /\ ~df_raw.none /\ df_raw = csv)

C3_Witness == fileStatus = "missing" /\ pc = "stopped" /\ messages # {}

\* Rows of the file, among those that satisfy Keep, whose month is m.
RowsInMonth(m, Keep(_)) == Count(csv.rows, LAMBDA r : r.Month_name = m /\ Keep(r))

\* The table has the twelve canonical months in order, each with a natural
\* number that is 0 when no row that satisfies Keep falls in the month.
CalendarComplete(t, Keep(_)) ==
    /\ Len(t.rows) = 12
    /\ \A n \in 1..12 :
          /\ t.rows[n].Month_name = month_order[n]
          /\ t.rows[n].Ventas \in Nat
          /\ RowsInMonth(month_order[n], Keep) = 0 => t.rows[n].Ventas = 0

\* C4: volume_by_month and top_product_monthly_trend, whenever computed, have
\* exactly twelve entries, January..December in order, with a non-negative
\* integer measure that is 0 for a month without qualifying transactions.
C4_CalendarCompleteness ==
    /\ ~sales_volume_by_month.none => CalendarComplete(sales_volume_by_month, LAMBDA r : TRUE)
    /\ ~ventas_cafe_estrella_mes.none =>
          CalendarComplete(ventas_cafe_estrella_mes, LAMBDA r : r.Coffee_Name = cafe_mas_vendido_ano)

\* Both tables computed from a file in which March has sales and January none.
C4_Witness ==
    /\ ~sales_volume_by_month.none /\ ~ventas_cafe_estrella_mes.none
    /\ RowsInMonth("January", LAMBDA r : TRUE) = 0
    /\ sales_volume_by_month.rows[3].Ventas > 0
    /\ ventas_cafe_estrella_mes.rows[3].Ventas > 0
    /\ ventas_cafe_estrella_mes.rows[1].Ventas = 0

\* ---- independent totals over the rows of the file
HasDay(r) == r.Weekday # NaN /\ r.Weekdaysort # NaNNum
HasMonth(r) == r.Month_name \in Range(month_order)
HasHour(r) == r.Hour_of_Day # NaNNum
HasCoffee(r) == r.Coffee_Name # NaN
IsStar(r) == r.Coffee_Name = cafe_mas_vendido_ano

\* C5 as stated: each computed aggregate's measure adds up to the number of
\* rows (the total Money, for revenue) of the subset it is taken over, rows
\* with a null or out-of-vocabulary grouping key included.
C5_ConservationAllRows ==
    raised = "none" =>
    /\ ~sales_by_day_money.none =>
          SumField(sales_by_day_money.rows, "Money") = SumField(csv.rows, "Money")
    /\ ~sales_volume_by_weekday.none =>
          SumField(sales_volume_by_weekday.rows, "Ventas") = Len(csv.rows)
    /\ ~sales_volume_by_month.none =>
          SumField(sales_volume_by_month.rows, "Ventas") = Len(csv.rows)
    /\ ~sales_by_hour.none =>
          SumField(sales_by_hour.rows, "Ventas") = Len(csv.rows)
    /\ ~ventas_cafe_estrella_mes.none =>
          SumField(ventas_cafe_estrella_mes.rows, "Ventas") = Len(SelectSeq(csv.rows, IsStar))
    /\ ~porcentajes_cafe.none =>
          SumField(porcentajes_cafe.rows, "num") = 100 * Len(csv.rows)

\* C5 amended: each computed aggregate's measure adds up to the number of
\* rows (the total Money, for revenue) whose grouping key is not null and,
\* for Month_name, is a canonical month; those rows are counted once, every
\* other row is left out of that aggregate.
C5_ConservationKeyedRows ==
    /\ ~sales_by_day_money.none =>
          SumField(sales_by_day_money.rows, "Money")
              = SumField(SelectSeq(csv.rows, HasDay), "Money")
    /\ ~sales_volume_by_weekday.none =>
          SumField(sales_volume_by_weekday.rows, "Ventas") = Len(SelectSeq(csv.rows, HasDay))
    /\ ~sales_volume_by_month.none =>
          SumField(sales_volume_by_month.rows, "Ventas") = Len(SelectSeq(csv.rows, HasMonth))
    /\ ~sales_by_hour.none =>
          SumField(sales_by_hour.rows, "Ventas") = Len(SelectSeq(csv.rows, HasHour))
    /\ ~ventas_cafe_estrella_mes.none =>
          SumField(ventas_cafe_estrella_mes.rows, "Ventas")
              = Len(SelectSeq(csv.rows, LAMBDA r : IsStar(r) /\ HasMonth(r)))
    /\ ~porcentajes_cafe.none =>
          /\ SumField(porcentajes_cafe.rows, "num") = 100 * Len(SelectSeq(csv.rows, HasCoffee))
          /\ \A n \in 1..Len(porcentajes_cafe.rows) :
                porcentajes_cafe.rows[n].den = Len(SelectSeq(csv.rows, HasCoffee))

\* A finished run over a file in which every column has a keyed row and
\* every column but Money has a row with a null or unknown key.
C5_Witness ==
    /\ pc = "done"
    /\ \A a \in Aggregations : Available(a)
    /\ Len(SelectSeq(csv.rows, HasDay)) \in 1..(Len(csv.rows) - 1)
    /\ Len(SelectSeq(csv.rows, HasMonth)) \in 1..(Len(csv.rows) - 1)
    /\ Len(SelectSeq(csv.rows, HasHour)) \in 1..(Len(csv.rows) - 1)

\* ---- first maximum in output order
\* Label of the first row, in the order of the table, with the largest measure.
FirstMax(t, col, label) ==
    LET top == CHOOSE i \in 1..Len(t) : \A j \in 1..Len(t) : t[j][col] <= t[i][col]
        first == CHOOSE i \in 1..Len(t) :
                    /\ t[i][col] = t[top][col]
                    /\ \A j \in 1..Len(t) : t[j][col] = t[top][col] => i <= j
    IN t[first][label]

DaysPresent == {csv.rows[i].Weekday : i \in {j \in 1..Len(csv.rows) : HasDay(csv.rows[j])}}
DayTotal(w) == SumField(SelectSeq(csv.rows, LAMBDA r : r.Weekday = w), "Money")

\* C6: for the four chronological tables the peak is the first key, in the
\* table's output order (ascending Weekdaysort, ascending hour, canonical
\* month), that attains the maximum; of weekdays with equal maximal revenue
\* the one with the smaller Weekdaysort is reported, whatever the row order.
C6_TieBreakFirstInOrder ==
    /\ (~sales_by_day_money.none /\ dia_pico_ingresos # NA) =>
          LET t == sales_by_day_money.rows
          IN /\ \A i, j \in 1..Len(t) : i < j => t[i].Weekdaysort < t[j].Weekdaysort
             /\ dia_pico_ingresos = FirstMax(t, "Money", "Weekday")
             /\ \A w \in DaysPresent :
                   \/ DayTotal(w) < DayTotal(dia_pico_ingresos)
                   \/ /\ DayTotal(w) = DayTotal(dia_pico_ingresos)
                      /\ WeekdaysortOf(dia_pico_ingresos) <= WeekdaysortOf(w)
    /\ (~sales_volume_by_weekday.none /\ sales_volume_by_weekday.rows # <<>>) =>
          LET t == sales_volume_by_weekday.rows
          IN /\ \A i, j \in 1..Len(t) : i < j => t[i].Weekdaysort < t[j].Weekdaysort
             /\ peak_sales_day = FirstMax(t, "Ventas", "Weekday")
    /\ (~sales_by_hour.none /\ sales_by_hour.rows # <<>>) =>
          LET t == sales_by_hour.rows
          IN /\ \A i, j \in 1..Len(t) : i < j => t[i].idx < t[j].idx
             /\ peak_hour = ToString(FirstMax(t, "Ventas", "idx"))
    /\ ~sales_volume_by_month.none =>
          LET t == sales_volume_by_month.rows
          IN /\ \A n \in 1..Len(t) : t[n].Month_name = month_order[n]
             /\ peak_sales_month = FirstMax(t, "Ventas", "Month_name")

\* Monday and Friday tie for the largest revenue and Monday is reported,
\* with a Friday row ahead of every Monday row in the file.
C6_Witness ==
    /\ pc = "done"
    /\ {"Monday", "Friday"} \subseteq DaysPresent
    /\ DayTotal("Monday") = DayTotal("Friday")
    /\ \A w \in DaysPresent : DayTotal(w) <= DayTotal("Monday")
    /\ csv.rows[1].Weekday = "Friday"
    /\ dia_pico_ingresos = "Monday"

\* C7: when Month_name holds a value outside the twelve canonical names, a
\* warning is shown and the rows with that value are still counted in the
\* month aggregation.
C7_OutOfVocabularyWarned ==
    (/\ "Month_name" \in df.columns
     /\ pc \notin {"load", "check", "normalize", "stopped"}
     /\ \E i \in 1..Len(csv.rows) : csv.rows[i].Month_name \notin Range(month_order) \cup {NaN}) =>
        /\ "warning: no todos los meses esperados" \in messages
        /\ ~sales_volume_by_month.none =>
              SumField(sales_volume_by_month.rows, "Ventas")
                  = Len(SelectSeq(csv.rows, LAMBDA r : r.Month_name # NaN))

\* C8: for every table with the columns Weekday, Weekdaysort and Money,
\* revenue_by_weekday is available with one entry per weekday that carries
\* the sum of its Money, in ascending Weekdaysort, and the peak is the
\* weekday of the largest sum (Monday 10, Monday 5, Tuesday 7 gives
\* Monday 15, Tuesday 7 and peak Monday).
C8_RevenueByWeekday ==
    (Ended /\ fileStatus = "ok" /\ {"Weekday", "Weekdaysort", "Money"} \subseteq csv.columns) =>
        LET t == sales_by_day_money.rows
        IN /\ ~sales_by_day_money.none
           /\ Len(t) = Cardinality(DaysPresent)
           /\ \A n \in 1..Len(t) : t[n].Weekday \in DaysPresent /\ t[n].Money = DayTotal(t[n].Weekday)
           /\ \A i, j \in 1..Len(t) : i < j => t[i].Weekdaysort < t[j].Weekdaysort
           /\ DaysPresent # {} =>
                 /\ dia_pico_ingresos \in DaysPresent
                 /\ \A w \in DaysPresent : DayTotal(w) <= DayTotal(dia_pico_ingresos)
           /\ csv.rows = ScenarioRevenue =>
                 /\ t = <<[idx |-> 0, Weekday |-> "Monday", Weekdaysort |-> 1, Money |-> 15],
                          [idx |-> 1, Weekday |-> "Tuesday", Weekdaysort |-> 2, Money |-> 7]>>
                 /\ dia_pico_ingresos = "Monday"

ProductsPresent == {csv.rows[i].Coffee_Name : i \in {j \in 1..Len(csv.rows) : HasCoffee(csv.rows[j])}}
ProductTotal(c) == Len(SelectSeq(csv.rows, LAMBDA r : r.Coffee_Name = c))

\* C9: for every table with a Coffee_Name column and a non-null product,
\* product_share has one entry per product with share count/total x 100, in
\* non-increasing share, the shares add up to 100, and the leader is a
\* product of the largest share, reported with that share (Latte, Latte,
\* Espresso gives Latte 2/3, Espresso 1/3, leader Latte).
C9_ProductShare ==
    (Ended /\ fileStatus = "ok" /\ "Coffee_Name" \in csv.columns /\ ProductsPresent # {}) =>
        LET t == porcentajes_cafe.rows
            total == Len(SelectSeq(csv.rows, HasCoffee))
        IN /\ ~porcentajes_cafe.none
           /\ Len(t) = Cardinality(ProductsPresent)
           /\ \A n \in 1..Len(t) :
                 /\ t[n].idx \in ProductsPresent
                 /\ t[n].num = 100 * ProductTotal(t[n].idx)
                 /\ t[n].den = total
           /\ \A i, j \in 1..Len(t) : i < j => (t[i].idx # t[j].idx /\ t[i].num >= t[j].num)
           /\ SumField(t, "num") = 100 * total
           /\ top_coffee_name \in ProductsPresent
           /\ \A c \in ProductsPresent : ProductTotal(c) <= ProductTotal(top_coffee_name)
           /\ top_coffee_percent = [num |-> 100 * ProductTotal(top_coffee_name), den |-> total]
           /\ csv.rows = ScenarioShare =>
                 /\ t = <<[idx |-> "Latte", num |-> 200, den |-> 3],
                          [idx |-> "Espresso", num |-> 100, den |-> 3]>>
                 /\ top_coffee_name = "Latte"

\* C10: on a table with rows, when a month aggregation has its columns but
\* no row qualifies (no row has a canonical month; no row of the top product
\* has one), its peak is "N/A", not a month name, and no lookup of an empty
\* maximum raises.
C10_EmptyResultIsNA ==
    (fileStatus = "ok" /\ csv.rows # <<>> /\ "Month_name" \in csv.columns) =>
        /\ (Len(SelectSeq(csv.rows, HasMonth)) = 0 /\ Ended) => raised # "ValueError"
        /\ (Len(SelectSeq(csv.rows, HasMonth)) = 0 /\ ~sales_volume_by_month.none) =>
              peak_sales_month = NA
        /\ (/\ ~ventas_cafe_estrella_mes.none
            /\ Len(SelectSeq(csv.rows, LAMBDA r : IsStar(r) /\ HasMonth(r))) = 0) =>
              mes_pico_estrella = NA

\* Rows of the file of the top product in month m.
StarRowsIn(m) == Len(SelectSeq(csv.rows, LAMBDA r : IsStar(r) /\ r.Month_name = m))

\* Section B has been written with its metrics.
SeccionBShown == \E i \in 1..Len(rendered) : rendered[i].section = "B" /\ rendered[i].shown

\* C11: whenever top_product_monthly_trend is computed, each canonical month
\* carries the number of rows of the top product in that month (rows of other
\* products add nothing), max_ventas_estrella is the largest of the twelve
\* measures, mes_pico_estrella the first canonical month that attains it, and
\* the minimum shown in section B is the smallest of the twelve, zero-filled
\* months included, so it is at most the maximum.
C11_MonthlyTrendOfTopProduct ==
    ~ventas_cafe_estrella_mes.none =>
        LET t == ventas_cafe_estrella_mes.rows
        IN /\ Len(t) = Len(month_order)
           /\ \A n \in 1..Len(t) :
                 /\ t[n].Month_name = month_order[n]
                 /\ t[n].Ventas = StarRowsIn(month_order[n])
           /\ \E n \in 1..Len(t) :
                 /\ max_ventas_estrella = t[n].Ventas
                 /\ mes_pico_estrella = t[n].Month_name
                 /\ \A k \in 1..Len(t) : t[k].Ventas <= t[n].Ventas
                 /\ \A k \in 1..(n - 1) : t[k].Ventas < t[n].Ventas
           /\ SeccionBShown =>
                 /\ \E n \in 1..Len(t) : min_ventas_estrella = t[n].Ventas
                 /\ \A k \in 1..Len(t) : min_ventas_estrella <= t[k].Ventas
                 /\ min_ventas_estrella <= max_ventas_estrella

\* A finished run: Latte leads with one sale in March (first row of the file)
\* and one in January, an Espresso sale in March adds nothing to March,
\* January is reported, and the minimum shown is 0.
C11_Witness ==
    /\ pc = "done"
    /\ cafe_mas_vendido_ano = "Latte"
    /\ csv.rows[1].Month_name = "March" /\ csv.rows[1].Coffee_Name = "Latte"
    /\ \E i \in 1..Len(csv.rows) :
          csv.rows[i].Coffee_Name = "Espresso" /\ csv.rows[i].Month_name = "March"
    /\ ventas_cafe_estrella_mes.rows[1].Ventas = 1
    /\ ventas_cafe_estrella_mes.rows[3].Ventas = 1
    /\ mes_pico_estrella = "January"
    /\ max_ventas_estrella = 1
    /\ min_ventas_estrella = 0

\* C12: for every table with a Coffee_Name column that holds a product, the
\* top product is a product no other product outsells, and the leader of
\* product_share is that same product, also when products tie for the
\* largest count: the two labels of the summary never disagree.
C12_LeaderAgreement ==
    (Ended /\ fileStatus = "ok" /\ "Coffee_Name" \in csv.columns /\ ProductsPresent # {}) =>
        /\ cafe_mas_vendido_ano \in ProductsPresent
        /\ \A c \in ProductsPresent : ProductTotal(c) <= ProductTotal(cafe_mas_vendido_ano)
        /\ top_coffee_name = cafe_mas_vendido_ano

====
